---- MODULE Spec2Model ----
(***************************************************************************)
(* Model of backend/app.py of Document-Scanner-OCR: the /api/convert       *)
(* handler, processImageToDoc, executeDiagramCode, getGeminiResponse and   *)
(* getGeminiModel.                                                         *)
(*                                                                         *)
(* Strings that the code inspects character by character (file names,     *)
(* model identifiers) are sequences of one-character strings.  The oracle's*)
(* response text is a sequence of tokens: the two literal markers, a word, *)
(* a blank and a newline.  A document is the sequence of items appended to *)
(* it through the python-docx interface.                                   *)
(***************************************************************************)
EXTENDS Integers, Sequences, FiniteSets, TLC

VARIABLES
    apiKey,        \* module-level API_KEY
    catalog,       \* the provider's model catalog (answer to GET /models)
    fetch,         \* outcome of the catalog call: "ok", "non200", "exception"
    hasFile,       \* per request: 'file' in request.files
    filename,      \* per request: file.filename
    oracle,        \* per request: outcome of the generation call
    respText,      \* per request: text of the first candidate
    pc,            \* per request: position in convert()
    doc,           \* per request: the Document being built
    parts,         \* per request: result of re.split
    idx,           \* per request: loop index i of enumerate(parts)
    diagramCounter,\* per request
    success,       \* per request: return value of processImageToDoc
    status,        \* per request: HTTP status returned (0 = none yet)
    recv,          \* per request: docxData sent back to the caller
    modelUsed,     \* per request: model identifier put in the generation URL
    netCalls,      \* per request: number of network calls attempted
    subprocRuns,   \* per request: number of subprocess.run calls
    wdCreated,     \* per request: a TemporaryDirectory was created
    lastExec,      \* per request: last executeDiagramCode call and its result
    renderLog,     \* per request: one entry per executeDiagramCode call
    sawOutput,     \* per request: os.path.exists(outputPath) in the handler
    dirs,          \* existing working directories
    files          \* existing files: [path, owner, data]

vars == <<apiKey, catalog, fetch, hasFile, filename, oracle, respText, pc, doc,
          parts, idx, diagramCounter, success, status, recv, modelUsed,
          netCalls, subprocRuns, wdCreated, lastExec, renderLog, sawOutput,
          dirs, files>>

\* ------------------------------------------------------------------ bounds
MaxLen == 5
MaxCatalog == 3

Reqs == {1, 2, 3}

\* ----------------------------------------------------------------- strings
Min(S) == CHOOSE x \in S : \A y \in S : x <= y
Max(S) == CHOOSE x \in S : \A y \in S : x >= y

SeqsUpTo(S, n) == UNION {[1..k -> S] : k \in 0..n}

Digits == <<"0", "1", "2", "3", "4", "5", "6", "7", "8", "9">>

\* str.isalnum() holds of every Unicode letter and digit; these are the ones
\* among the characters the model's strings are made of.
AlnumChars ==
    {"a", "b", "c", "d", "e", "f", "g", "h", "i", "j", "k", "l", "m", "n", "o",
     "p", "q", "r", "s", "t", "u", "v", "w", "x", "y", "z",
     "A", "B", "C", "D", "E", "F", "G", "H", "I", "J", "K", "L", "M", "N", "O",
     "P", "Q", "R", "S", "T", "U", "V", "W", "X", "Y", "Z",
     "0", "1", "2", "3", "4", "5", "6", "7", "8", "9",
     "é", "ß", "µ", "²"}

\* Bytes of a character in the file system's encoding (UTF-8).
Utf8Len(c) == IF c \in {"é", "ß", "µ", "²"} THEN 2 ELSE 1

\* len(s.encode()): one byte per character and one more for each character
\* of two bytes.
ByteLen(s) == Len(s) + Cardinality({i \in 1..Len(s) : Utf8Len(s[i]) = 2})

\* str(n) for n >= 0
RECURSIVE Str(_)
Str(n) == IF n < 10 THEN <<Digits[n + 1]>>
          ELSE Str(n \div 10) \o <<Digits[(n % 10) + 1]>>

\* sub in s
Contains(s, sub) ==
    \E i \in 0..(Len(s) - Len(sub)) : SubSeq(s, i + 1, i + Len(sub)) = sub

\* s.replace(old, new), old non-empty: leftmost non-overlapping occurrences
RECURSIVE Replace(_, _, _)
Replace(s, old, new) ==
    IF Len(s) < Len(old) THEN s
    ELSE IF SubSeq(s, 1, Len(old)) = old
         THEN new \o Replace(SubSeq(s, Len(old) + 1, Len(s)), old, new)
         ELSE <<s[1]>> \o Replace(Tail(s), old, new)

\* s.rsplit(".", 1)[0]
RsplitDotHead(s) ==
    LET dots == {i \in 1..Len(s) : s[i] = "."}
    IN IF dots = {} THEN s ELSE SubSeq(s, 1, Max(dots) - 1)

IsAlnumOrUnderscore(c) == c \in AlnumChars \/ c = "_"

\* ''.join([c for c in uniqueId if c.isalnum() or c == '_'])
Sanitize(s) == SelectSeq(s, IsAlnumOrUnderscore)

\* ----------------------------------------------------------- response text
START == "[[DIAGRAM_CODE_START]]"
END == "[[DIAGRAM_CODE_END]]"
WORD == "a"
BLANK == " "
NEWLINE == "\n"

Alphabet == {START, END, WORD, BLANK, NEWLINE}

IsSpace(t) == t \in {BLANK, NEWLINE}

\* part.strip()
Strip(s) ==
    LET keep == {i \in 1..Len(s) : ~IsSpace(s[i])}
    IN IF keep = {} THEN <<>> ELSE SubSeq(s, Min(keep), Max(keep))

\* Index of the END that closes the match opened at i: '.*?' is lazy, so the
\* first END after i.
LazyEnd(text, i) == Min({j \in (i + 1)..Len(text) : text[j] = END})

\* A greedy '.*' would run to the last END instead.
GreedyEnd(text, i) == Max({j \in (i + 1)..Len(text) : text[j] = END})

MatchEnd(text, i) == LazyEnd(text, i)

\* re.split(r'\[\[DIAGRAM_CODE_START\]\](.*?)\[\[DIAGRAM_CODE_END\]\]', text,
\*          flags=re.DOTALL): text before the match, the captured group, and
\* the split of the rest.
RECURSIVE ReSplit(_)
ReSplit(text) ==
    LET starts == {i \in 1..Len(text) :
                     /\ text[i] = START
                     /\ \E j \in (i + 1)..Len(text) : text[j] = END}
    IN IF starts = {} THEN <<text>>
       ELSE LET i == Min(starts)
                j == MatchEnd(text, i)
            IN <<SubSeq(text, 1, i - 1), SubSeq(text, i + 1, j - 1)>>
                 \o ReSplit(SubSeq(text, j + 1, Len(text)))

\* ------------------------------------------------------------ model catalog
ModelsPrefix == <<"m", "o", "d", "e", "l", "s", "/">>
Flash == <<"f", "l", "a", "s", "h">>
Pro == <<"p", "r", "o">>

\* 'gemini-1.5-flash-latest'
DefaultModel ==
    <<"g", "e", "m", "i", "n", "i", "-", "1", ".", "5", "-">> \o Flash
        \o <<"-", "l", "a", "t", "e", "s", "t">>

GENERATE == "generateContent"
EMBED == "embedContent"

\* Identifiers a catalog entry may carry.
CatalogNames ==
    { ModelsPrefix \o <<"x", "-">> \o Pro,          \* models/x-pro
      ModelsPrefix \o <<"y", "-">> \o Flash,        \* models/y-flash
      ModelsPrefix \o Pro \o <<"2">>,               \* models/pro2
      ModelsPrefix \o Flash \o <<"2">>,             \* models/flash2
      ModelsPrefix \o <<"e">>,                      \* models/e
      <<"f", "l">> \o ModelsPrefix \o <<"a", "s", "h">> }  \* flmodels/ash

CatalogEntries ==
    [name : CatalogNames, supportedGenerationMethods : {{GENERATE}, {EMBED}}]

\* The body of 'for model in data.get("models", [])' from entry i on, with
\* modelName the value held so far: a flash entry returns at once, a pro entry
\* is only remembered.
RECURSIVE ScanModelsNoShortCircuit(_, _, _)
ScanModelsNoShortCircuit(models, i, modelName) ==
    IF i > Len(models) THEN modelName
    ELSE IF GENERATE \in models[i].supportedGenerationMethods
         THEN LET name == Replace(models[i].name, ModelsPrefix, <<>>)
              IN IF Contains(name, Flash) \/ Contains(name, Pro)
                 THEN ScanModelsNoShortCircuit(models, i + 1, name)
                 ELSE ScanModelsNoShortCircuit(models, i + 1, modelName)
         ELSE ScanModelsNoShortCircuit(models, i + 1, modelName)

RECURSIVE ScanModels(_, _, _)
ScanModels(models, i, modelName) ==
    IF i > Len(models) THEN modelName
    ELSE IF GENERATE \in models[i].supportedGenerationMethods
         THEN LET name == Replace(models[i].name, ModelsPrefix, <<>>)
              IN IF Contains(name, Flash) THEN name
                 ELSE IF Contains(name, Pro)
                      THEN ScanModels(models, i + 1, name)
                      ELSE ScanModels(models, i + 1, modelName)
         ELSE ScanModels(models, i + 1, modelName)

\* getGeminiModel(): the catalog call raised, answered with a status other
\* than 200, or answered 200 with the catalog.
GetGeminiModel(fetchOutcome, models) ==
    IF fetchOutcome = "ok" THEN ScanModels(models, 1, DefaultModel)
    ELSE DefaultModel

\* getGeminiResponse(): what it returns, given the outcome of the generation
\* call.  None is [some |-> FALSE]; "nontext" is a 200 answer whose "text"
\* member is a non-empty value that is not a string (5, ["a"]), which is
\* returned as it is.
OracleOutcomes == {"ok", "nontext", "non200", "nocandidates", "exception"}

GetGeminiResponse(outcome, text) ==
    IF outcome = "ok" THEN [some |-> TRUE, isText |-> TRUE, text |-> text]
    ELSE IF outcome = "nontext"
         THEN [some |-> TRUE, isText |-> FALSE, text |-> <<>>]
         ELSE [some |-> FALSE, isText |-> FALSE, text |-> <<>>]

\* 'not responseText': None or the empty string
NotResponseText(responseText) ==
    ~responseText.some \/ (responseText.isText /\ responseText.text = <<>>)

\* 'not API_KEY'
KeyAlwaysSet(key) == FALSE

NotApiKey(key) == key = ""

\* ---------------------------------------------------------------- document
Item(kind, body) == [kind |-> kind, body |-> body]

TitleItem == Item("heading0", <<"Smart OCR Conversion">>)
SourceHeading(name) == Item("heading1", <<"Source: ">> \o name)
PageBreak == Item("pagebreak", <<>>)
FailedPlaceholder == Item("paragraph", <<"[Diagram Generation Failed]">>)
ImageErrorPlaceholder ==
    Item("paragraph", <<"[Diagram Generation Failed - Image Error]">>)

\* doc.add_heading / add_paragraph / add_picture / add_page_break append at
\* the end of the document body.
PrependItems(d, items) == items \o d

AddItems(d, items) == d \o items

\* even-indexed part: 'if part.strip(): doc.add_paragraph(part.strip())'
ProseItemsUnstripped(part) ==
    IF part # <<>> THEN <<Item("paragraph", part)>> ELSE <<>>

ProseItems(part) ==
    IF Strip(part) # <<>> THEN <<Item("paragraph", Strip(part))>> ELSE <<>>

\* ------------------------------------------------------ executeDiagramCode
\* Writing the script: it is written; open() raises and no file is made; or
\* open() makes the file and f.write raises (text that cannot be encoded).
WriteOutcomes == {"ok", "open_error", "write_error"}

RunOutcomes == {"exit0", "exit1", "timeout", "oserror"}

NoImage == [some |-> FALSE, path |-> <<>>]

\* Files of a working directory are named by the request owning the
\* directory; dir 0 is tempfile.gettempdir().
ScriptPath(workDir, uniqueId) ==
    [dir |-> workDir,
     name |-> <<"d", "i", "a", "g", "r", "a", "m", "_">> \o uniqueId
                \o <<".", "p", "y">>]

ImageOutputPath(workDir, uniqueId) ==
    [dir |-> workDir,
     name |-> <<"d", "i", "a", "g", "r", "a", "m", "_">> \o uniqueId
                \o <<".", "p", "n", "g">>]

\* The file system refuses a file name of more than 255 bytes.
NameTooLong(path) == ByteLen(path.name) > 255

\* What executeDiagramCode returns: writeOk is whether writing the script
\* succeeded, run the outcome of subprocess.run, existsAfter the value of
\* os.path.exists(imageOutputPath) afterwards.
ExecuteDiagramCodeExitOnly(imageOutputPath, writeOk, run, existsAfter) ==
    IF writeOk /\ run = "exit0"
    THEN [some |-> TRUE, path |-> imageOutputPath]
    ELSE NoImage

ExecuteDiagramCode(imageOutputPath, writeOk, run, existsAfter) ==
    IF ~writeOk THEN NoImage
    ELSE IF run \in {"timeout", "oserror"} THEN NoImage
    ELSE IF run = "exit0" /\ existsAfter
         THEN [some |-> TRUE, path |-> imageOutputPath]
         ELSE NoImage

\* The items one diagram segment adds (lines 188-196): the picture, the
\* image-error placeholder when add_picture raises, or the failure placeholder.
DiagramItemsSilent(imgPath, existsNow, embedOk) ==
    IF imgPath.some /\ existsNow
    THEN IF embedOk THEN <<Item("picture", imgPath.path.name)>> ELSE <<>>
    ELSE <<FailedPlaceholder>>

DiagramItems(imgPath, existsNow, embedOk) ==
    IF imgPath.some /\ existsNow
    THEN IF embedOk THEN <<Item("picture", imgPath.path.name)>>
         ELSE <<ImageErrorPlaceholder>>
    ELSE <<FailedPlaceholder>>

\* The for loop goes on to the next part whatever the diagram's outcome.
NextPartIndexBreak(i, n, imgPath) == IF imgPath.some THEN i + 1 ELSE n

NextPartIndex(i, n, imgPath) == i + 1

\* ------------------------------------------------------------- file system
PathsOf(fs) == {f.path : f \in fs}

\* Writing a file replaces what the path held.
WriteFile(fs, path, owner, data) ==
    {f \in fs : f.path # path} \cup {[path |-> path, owner |-> owner, data |-> data]}

\* os.remove inside try/except: a missing file raises and the exception is
\* swallowed.
RemoveFile(fs, path) == {f \in fs : f.path # path}

\* TemporaryDirectory.__exit__: the directory and all its contents go.
TeardownKeepsFiles(fs, workDir) == fs

Teardown(fs, workDir) == {f \in fs : f.path.dir # workDir}

\* os.path.join(tempfile.gettempdir(), f'converted_{stem}.docx')
OutputPath(name) ==
    [dir |-> 0,
     name |-> <<"c", "o", "n", "v", "e", "r", "t", "e", "d", "_">>
                \o RsplitDotHead(name) \o <<".", "d", "o", "c", "x">>]

\* doc.save(outputPath) raises when the file cannot be created: the stem of
\* the upload's name holds a path separator (the path names a directory that
\* does not exist), or the file name is too long.
SaveRaises(path) == Contains(path.name, <<"/">>) \/ NameTooLong(path)

\* ------------------------------------------------------------------- inputs
NameA == <<"a", ".", "j">>
NameA2 == <<"a", ".", "p">>
NameSlash == <<"d", "/", "a", ".", "j">>
NamePunct == <<"M", "y", " ", "(", "1", ")", ".", "j">>
NameAccent == <<"é", "²", ".", "j">>
NameLong == [i \in 1..250 |-> "a"] \o <<".", "j">>

Texts == SeqsUpTo(Alphabet, MaxLen)
Catalogs == SeqsUpTo(CatalogEntries, MaxCatalog)

\* A request as it arrives: whether it carries a file, the file's name, and
\* what the generation call will answer.
Upload(has, name, outcome, text) ==
    [has |-> has, name |-> name, outcome |-> outcome, text |-> text]

\* One upload with every response text up to MaxLen tokens and every way the
\* generation call can fail, and one whose document cannot be saved.
AssemblyUploads ==
    {Upload(TRUE, NamePunct, "ok", t) : t \in Texts}
        \cup {Upload(TRUE, NamePunct, o, <<>>) : o \in OracleOutcomes \ {"ok"}}
        \cup {Upload(TRUE, NameSlash, "ok", <<WORD>>)}

ModelUploads ==
    { Upload(TRUE, NameA, "ok", <<WORD>>),
      Upload(TRUE, NameSlash, "ok", <<START, END>>) }

\* Uploads of concurrent requests: names with the same stem, names the file
\* system refuses, a missing file, an empty name, failing generation calls.
ConcurrentUploads ==
    { Upload(TRUE, NameA, "ok", <<START, WORD, END>>),
      Upload(TRUE, NameA2, "ok", <<WORD>>),
      Upload(TRUE, NameSlash, "ok", <<START, WORD, END>>),
      Upload(TRUE, NameLong, "ok", <<WORD, START, END>>),
      Upload(TRUE, NameAccent, "ok", <<START, END>>),
      Upload(TRUE, NameA, "non200", <<>>),
      Upload(TRUE, NameA, "nontext", <<>>),
      Upload(TRUE, <<>>, "ok", <<WORD>>),
      Upload(FALSE, <<>>, "ok", <<WORD>>) }

\* Three requests that can meet on one output path.
CollidingUploads ==
    { Upload(TRUE, NameA, "ok", <<WORD>>),
      Upload(TRUE, NameA2, "ok", <<WORD>>) }

NoExec ==
    [called |-> FALSE, write |-> "ok", run |-> "notrun", existsAfter |-> FALSE,
     result |-> NoImage]

NoData == [owner |-> 0, data |-> <<>>]

\* The state before any request has been handled.  active: the requests that
\* arrive; the other parameters are the sets the inputs are drawn from.
InitWith(active, keys, fetches, catalogs, uploads) ==
    /\ apiKey \in keys
    /\ fetch \in fetches
    /\ catalog \in catalogs
    /\ fetch # "ok" => catalog = <<>>
    /\ \E u \in [active -> uploads] :
          /\ hasFile = [r \in Reqs |-> IF r \in active THEN u[r].has ELSE FALSE]
          /\ filename = [r \in Reqs |-> IF r \in active THEN u[r].name ELSE <<>>]
          /\ oracle = [r \in Reqs |->
                         IF r \in active THEN u[r].outcome ELSE "exception"]
          /\ respText = [r \in Reqs |-> IF r \in active THEN u[r].text ELSE <<>>]
    /\ pc = [r \in Reqs |-> IF r \in active THEN "start" ELSE "idle"]
    /\ doc = [r \in Reqs |-> <<>>]
    /\ parts = [r \in Reqs |-> <<>>]
    /\ idx = [r \in Reqs |-> 0]
    /\ diagramCounter = [r \in Reqs |-> 0]
    /\ success = [r \in Reqs |-> FALSE]
    /\ status = [r \in Reqs |-> 0]
    /\ recv = [r \in Reqs |-> NoData]
    /\ modelUsed = [r \in Reqs |-> <<>>]
    /\ netCalls = [r \in Reqs |-> 0]
    /\ subprocRuns = [r \in Reqs |-> 0]
    /\ wdCreated = [r \in Reqs |-> FALSE]
    /\ lastExec = [r \in Reqs |-> NoExec]
    /\ renderLog = [r \in Reqs |-> <<>>]
    /\ sawOutput = [r \in Reqs |-> FALSE]
    /\ dirs = {}
    /\ files = {}

\* One request, every response text up to MaxLen tokens.
Init == InitWith({1}, {"K"}, {"ok"}, {<<>>}, AssemblyUploads)

\* One request, every catalog up to MaxCatalog entries.
InitModel ==
    InitWith({1}, {"K"}, {"ok", "non200", "exception"}, Catalogs, ModelUploads)

\* Concurrent requests: two of them over ConcurrentUploads, with and without
\* credentials, or three that meet on one output path.
InitConv ==
    \/ InitWith({1, 2}, {"", "K"}, {"ok"}, {<<>>}, ConcurrentUploads)
    \/ InitWith(Reqs, {"K"}, {"ok"}, {<<>>}, CollidingUploads)

\* ------------------------------------------------------------------ actions
\* A return of convert(): the status, and the 'with' block left.
Finish(r, code, fs) ==
    /\ status' = [status EXCEPT ![r] = code]
    /\ pc' = [pc EXCEPT ![r] = "done"]
    /\ dirs' = dirs \ {r}
    /\ files' = Teardown(fs, r)

\* An exception inside the 'with' block: the block is left (the working
\* directory goes) and the except clause of line 282 is entered.
Raise(r) ==
    /\ pc' = [pc EXCEPT ![r] = "handler"]
    /\ dirs' = dirs \ {r}
    /\ files' = Teardown(files, r)

\* convert(), lines 232-254: the checks on the request, then the working
\* directory and the fresh document.
ConvertEnter(r) ==
    /\ pc[r] = "start"
    /\ IF ~hasFile[r] \/ filename[r] = <<>>
       THEN /\ status' = [status EXCEPT ![r] = 400]
            /\ pc' = [pc EXCEPT ![r] = "done"]
            /\ UNCHANGED <<doc, dirs, wdCreated>>
       ELSE IF NotApiKey(apiKey)
       THEN /\ status' = [status EXCEPT ![r] = 500]
            /\ pc' = [pc EXCEPT ![r] = "done"]
            /\ UNCHANGED <<doc, dirs, wdCreated>>
       ELSE /\ dirs' = dirs \cup {r}
            /\ wdCreated' = [wdCreated EXCEPT ![r] = TRUE]
            /\ doc' = [doc EXCEPT ![r] = AddItems(<<>>, <<TitleItem>>)]
            /\ pc' = [pc EXCEPT ![r] = "process"]
            /\ UNCHANGED status
    /\ UNCHANGED <<apiKey, catalog, fetch, hasFile, filename, oracle, respText,
                   parts, idx, diagramCounter, success, recv, modelUsed,
                   netCalls, subprocRuns, lastExec, renderLog, sawOutput, files>>

\* processImageToDoc -> getGeminiResponse -> getGeminiModel, up to the
\* catalog call (line 34), in which the request then waits.
StartCatalogCall(r) ==
    /\ pc[r] = "process"
    /\ netCalls' = [netCalls EXCEPT ![r] = @ + 1]
    /\ pc' = [pc EXCEPT ![r] = "catalog"]
    /\ UNCHANGED <<apiKey, catalog, fetch, hasFile, filename, oracle, respText,
                   doc, parts, idx, diagramCounter, success, status, recv,
                   modelUsed, subprocRuns, wdCreated, lastExec, renderLog,
                   sawOutput, dirs, files>>

\* The catalog call is over: getGeminiModel returns (lines 35-51) and the
\* generation call is made with its result (lines 59-97); the request waits
\* in it.
StartGenerationCall(r) ==
    /\ pc[r] = "catalog"
    /\ modelUsed' = [modelUsed EXCEPT ![r] = GetGeminiModel(fetch, catalog)]
    /\ netCalls' = [netCalls EXCEPT ![r] = @ + 1]
    /\ pc' = [pc EXCEPT ![r] = "generate"]
    /\ UNCHANGED <<apiKey, catalog, fetch, hasFile, filename, oracle, respText,
                   doc, parts, idx, diagramCounter, success, status, recv,
                   subprocRuns, wdCreated, lastExec, renderLog, sawOutput,
                   dirs, files>>

\* The generation call is over: getGeminiResponse returns (lines 99-114) and
\* processImageToDoc goes on (lines 159-172): the conversion fails, or the
\* source heading is appended and the response split.  A response that is not
\* a string gets the heading, then re.split raises and the except clause of
\* line 202 returns False.
ProcessImageBegin(r) ==
    /\ pc[r] = "generate"
    /\ LET responseText == GetGeminiResponse(oracle[r], respText[r])
       IN IF NotResponseText(responseText)
          THEN /\ success' = [success EXCEPT ![r] = FALSE]
               /\ pc' = [pc EXCEPT ![r] = "processed"]
               /\ UNCHANGED <<doc, parts, idx, diagramCounter>>
          ELSE IF ~responseText.isText
          THEN /\ doc' = [doc EXCEPT
                            ![r] = AddItems(@, <<SourceHeading(filename[r])>>)]
               /\ success' = [success EXCEPT ![r] = FALSE]
               /\ pc' = [pc EXCEPT ![r] = "processed"]
               /\ UNCHANGED <<parts, idx, diagramCounter>>
          ELSE /\ doc' = [doc EXCEPT
                            ![r] = AddItems(@, <<SourceHeading(filename[r])>>)]
               /\ parts' = [parts EXCEPT ![r] = ReSplit(responseText.text)]
               /\ idx' = [idx EXCEPT ![r] = 0]
               /\ diagramCounter' = [diagramCounter EXCEPT ![r] = 0]
               /\ pc' = [pc EXCEPT ![r] = "loop"]
               /\ UNCHANGED success
    /\ UNCHANGED <<apiKey, catalog, fetch, hasFile, filename, oracle, respText,
                   status, recv, modelUsed, netCalls, subprocRuns, wdCreated,
                   lastExec, renderLog, sawOutput, dirs, files>>

\* One iteration of 'for i, part in enumerate(parts)' on a prose part, lines
\* 173-176.
ProcessPart(r) ==
    /\ pc[r] = "loop"
    /\ idx[r] < Len(parts[r])
    /\ idx[r] % 2 = 0
    /\ doc' = [doc EXCEPT ![r] = AddItems(@, ProseItems(parts[r][idx[r] + 1]))]
    /\ idx' = [idx EXCEPT ![r] = @ + 1]
    /\ UNCHANGED <<apiKey, catalog, fetch, hasFile, filename, oracle, respText,
                   pc, parts, diagramCounter, success, status, recv, modelUsed,
                   netCalls, subprocRuns, wdCreated, lastExec, renderLog,
                   sawOutput, dirs, files>>

\* An iteration on a diagram part, lines 178-186, and executeDiagramCode up
\* to subprocess.run (lines 117-141), in which the request then waits.  The
\* script's text (the fence stripping of line 179, the rewrites of lines
\* 121-130) reaches the document only through what writing and running it do,
\* so those outcomes are drawn freely, except that a script whose name the
\* file system refuses cannot be opened.  When the script cannot be written
\* executeDiagramCode returns None at once (lines 150-152).
StartDiagram(r) ==
    /\ pc[r] = "loop"
    /\ idx[r] < Len(parts[r])
    /\ idx[r] % 2 = 1
    /\ LET uniqueId == Sanitize(filename[r] \o <<"_">>
                                  \o Str(diagramCounter[r]))
           scriptPath == ScriptPath(r, uniqueId)
       IN \E w \in WriteOutcomes :
             /\ NameTooLong(scriptPath) => w = "open_error"
             /\ files' = IF w = "open_error" THEN files
                         ELSE WriteFile(files, scriptPath, r, <<>>)
             /\ diagramCounter' = [diagramCounter EXCEPT ![r] = @ + 1]
             /\ renderLog' = [renderLog EXCEPT
                                ![r] = Append(@, [idx |-> idx[r],
                                                  id |-> uniqueId,
                                                  before |-> Len(doc[r]),
                                                  after |-> 0])]
             /\ IF w = "ok"
                THEN /\ subprocRuns' = [subprocRuns EXCEPT ![r] = @ + 1]
                     /\ pc' = [pc EXCEPT ![r] = "running"]
                     /\ UNCHANGED lastExec
                ELSE /\ lastExec' = [lastExec EXCEPT
                                       ![r] = [called |-> TRUE, write |-> w,
                                               run |-> "notrun",
                                               existsAfter |-> FALSE,
                                               result |->
                                                 ExecuteDiagramCode(
                                                   ImageOutputPath(r, uniqueId),
                                                   FALSE, "notrun", FALSE)]]
                     /\ pc' = [pc EXCEPT ![r] = "embed"]
                     /\ UNCHANGED subprocRuns
    /\ UNCHANGED <<apiKey, catalog, fetch, hasFile, filename, oracle, respText,
                   doc, parts, idx, success, status, recv, modelUsed, netCalls,
                   wdCreated, sawOutput, dirs>>

\* subprocess.run is over (exit status, timeout, or it could not start the
\* process) and executeDiagramCode returns, lines 143-152.  The script may or
\* may not have left the image file.
DiagramRunEnds(r) ==
    /\ pc[r] = "running"
    /\ LET uniqueId == renderLog[r][Len(renderLog[r])].id
           imageOutputPath == ImageOutputPath(r, uniqueId)
       IN \E run \in RunOutcomes, creates \in BOOLEAN :
             LET fs == IF run # "oserror" /\ creates
                          /\ ~NameTooLong(imageOutputPath)
                       THEN WriteFile(files, imageOutputPath, r, <<>>)
                       ELSE files
                 existsAfter == imageOutputPath \in PathsOf(fs)
             IN /\ files' = fs
                /\ lastExec' = [lastExec EXCEPT
                                  ![r] = [called |-> TRUE, write |-> "ok",
                                          run |-> run,
                                          existsAfter |-> existsAfter,
                                          result |->
                                            ExecuteDiagramCode(imageOutputPath,
                                                               TRUE, run,
                                                               existsAfter)]]
    /\ pc' = [pc EXCEPT ![r] = "embed"]
    /\ UNCHANGED <<apiKey, catalog, fetch, hasFile, filename, oracle, respText,
                   doc, parts, idx, diagramCounter, success, status, recv,
                   modelUsed, netCalls, subprocRuns, wdCreated, renderLog,
                   sawOutput, dirs>>

\* Lines 188-196: the picture is embedded (add_picture may refuse the image)
\* or a placeholder appended, and the loop goes on.
EmbedDiagram(r) ==
    /\ pc[r] = "embed"
    /\ LET imgPath == lastExec[r].result
           existsNow == imgPath.some /\ imgPath.path \in PathsOf(files)
       IN \E embedOk \in BOOLEAN :
             LET newDoc == AddItems(doc[r],
                                    DiagramItems(imgPath, existsNow, embedOk))
             IN /\ doc' = [doc EXCEPT ![r] = newDoc]
                /\ renderLog' = [renderLog EXCEPT
                                   ![r][Len(renderLog[r])].after = Len(newDoc)]
                /\ idx' = [idx EXCEPT
                             ![r] = NextPartIndex(@, Len(parts[r]), imgPath)]
    /\ pc' = [pc EXCEPT ![r] = "loop"]
    /\ UNCHANGED <<apiKey, catalog, fetch, hasFile, filename, oracle, respText,
                   parts, diagramCounter, success, status, recv, modelUsed,
                   netCalls, subprocRuns, wdCreated, lastExec, sawOutput, dirs,
                   files>>

\* processImageToDoc, lines 198-200: the page break and 'return True'.
FinishDoc(r) ==
    /\ pc[r] = "loop"
    /\ idx[r] >= Len(parts[r])
    /\ doc' = [doc EXCEPT ![r] = AddItems(@, <<PageBreak>>)]
    /\ success' = [success EXCEPT ![r] = TRUE]
    /\ pc' = [pc EXCEPT ![r] = "processed"]
    /\ UNCHANGED <<apiKey, catalog, fetch, hasFile, filename, oracle, respText,
                   parts, idx, diagramCounter, status, recv, modelUsed,
                   netCalls, subprocRuns, wdCreated, lastExec, renderLog,
                   sawOutput, dirs, files>>

\* convert(), lines 258-263: 'Processing failed' is returned, or the document
\* is saved, or doc.save raises.
SaveDoc(r) ==
    /\ pc[r] = "processed"
    /\ LET outputPath == OutputPath(filename[r])
       IN IF ~success[r]
          THEN Finish(r, 500, files)
          ELSE IF SaveRaises(outputPath)
          THEN Raise(r) /\ UNCHANGED status
          ELSE /\ files' = WriteFile(files, outputPath, r, doc[r])
               /\ pc' = [pc EXCEPT ![r] = "readback"]
               /\ UNCHANGED <<status, dirs>>
    /\ UNCHANGED <<apiKey, catalog, fetch, hasFile, filename, oracle, respText,
                   doc, parts, idx, diagramCounter, success, recv, modelUsed,
                   netCalls, subprocRuns, wdCreated, lastExec, renderLog,
                   sawOutput>>

\* convert(), lines 266-267: the file is read back, or open raises because
\* the file is gone.
ReadBack(r) ==
    /\ pc[r] = "readback"
    /\ LET outputPath == OutputPath(filename[r])
       IN IF outputPath \in PathsOf(files)
          THEN LET f == CHOOSE g \in files : g.path = outputPath
               IN /\ recv' = [recv EXCEPT
                                ![r] = [owner |-> f.owner, data |-> f.data]]
                  /\ pc' = [pc EXCEPT ![r] = "remove"]
                  /\ UNCHANGED <<dirs, files>>
          ELSE /\ Raise(r)
               /\ UNCHANGED recv
    /\ UNCHANGED <<apiKey, catalog, fetch, hasFile, filename, oracle, respText,
                   doc, parts, idx, diagramCounter, success, status, modelUsed,
                   netCalls, subprocRuns, wdCreated, lastExec, renderLog,
                   sawOutput>>

\* convert(), line 284: 'outputPath and os.path.exists(outputPath)'.
HandlerCheck(r) ==
    /\ pc[r] = "handler"
    /\ sawOutput' = [sawOutput EXCEPT
                       ![r] = OutputPath(filename[r]) \in PathsOf(files)]
    /\ pc' = [pc EXCEPT ![r] = "handler_remove"]
    /\ UNCHANGED <<apiKey, catalog, fetch, hasFile, filename, oracle, respText,
                   doc, parts, idx, diagramCounter, success, status, recv,
                   modelUsed, netCalls, subprocRuns, wdCreated, lastExec,
                   renderLog, dirs, files>>

\* convert(), lines 285-289: the best-effort os.remove and the 500 answer.
HandlerRemove(r) ==
    /\ pc[r] = "handler_remove"
    /\ files' = IF sawOutput[r] THEN RemoveFile(files, OutputPath(filename[r]))
                ELSE files
    /\ status' = [status EXCEPT ![r] = 500]
    /\ pc' = [pc EXCEPT ![r] = "done"]
    /\ UNCHANGED <<apiKey, catalog, fetch, hasFile, filename, oracle, respText,
                   doc, parts, idx, diagramCounter, success, recv, modelUsed,
                   netCalls, subprocRuns, wdCreated, lastExec, renderLog,
                   sawOutput, dirs>>

\* convert(), lines 269-272.
RemoveOutput(r) ==
    /\ pc[r] = "remove"
    /\ files' = RemoveFile(files, OutputPath(filename[r]))
    /\ pc' = [pc EXCEPT ![r] = "send"]
    /\ UNCHANGED <<apiKey, catalog, fetch, hasFile, filename, oracle, respText,
                   doc, parts, idx, diagramCounter, success, status, recv,
                   modelUsed, netCalls, subprocRuns, wdCreated, lastExec,
                   renderLog, sawOutput, dirs>>

\* convert(), lines 274-280: the bytes are sent and the 'with' block is left.
SendFile(r) ==
    /\ pc[r] = "send"
    /\ Finish(r, 200, files)
    /\ UNCHANGED <<apiKey, catalog, fetch, hasFile, filename, oracle, respText,
                   doc, parts, idx, diagramCounter, success, recv, modelUsed,
                   netCalls, subprocRuns, wdCreated, lastExec, renderLog,
                   sawOutput>>

Next ==
    \E r \in Reqs :
        \/ ConvertEnter(r)
        \/ StartCatalogCall(r)
        \/ StartGenerationCall(r)
        \/ ProcessImageBegin(r)
        \/ ProcessPart(r)
        \/ StartDiagram(r)
        \/ DiagramRunEnds(r)
        \/ EmbedDiagram(r)
        \/ FinishDoc(r)
        \/ SaveDoc(r)
        \/ ReadBack(r)
        \/ HandlerCheck(r)
        \/ HandlerRemove(r)
        \/ RemoveOutput(r)
        \/ SendFile(r)

Spec == Init /\ [][Next]_vars
SpecModel == InitModel /\ [][Next]_vars
SpecConv == InitConv /\ [][Next]_vars

\* ------------------------------------------------------- claims: vocabulary
IsMarker(t) == t \in {START, END}
NoMarkers(text) == \A i \in 1..Len(text) : ~IsMarker(text[i])

OddIdx(ps) == {i \in 0..(Len(ps) - 1) : i % 2 = 1}
EvenIdx(ps) == {i \in 0..(Len(ps) - 1) : i % 2 = 0}

IsPlaceholder(it) == it \in {FailedPlaceholder, ImageErrorPlaceholder}
IsDiagramItem(it) == it.kind = "picture" \/ IsPlaceholder(it)
IsProse(it) == it.kind = "paragraph" /\ ~IsPlaceholder(it)

CountItems(d, P(_)) == Cardinality({i \in 1..Len(d) : P(d[i])})

HasWord(s) == \E i \in 1..Len(s) : ~IsSpace(s[i])

\* Python indices of the segments that are kept, in order: every diagram
\* span, and the prose spans that are not whitespace only.
KeptBefore(ps, i) ==
    {j \in 0..(i - 1) : j % 2 = 1 \/ HasWord(ps[j + 1])}

Reached(r) == netCalls[r] = 2

\* ------------------------------------------------------------------ C1
\* C1: once processImageToDoc has returned success, every odd-indexed part of
\* the split has been rendered once and has added exactly one item to the
\* document, a picture or one of the two placeholders; the document holds as
\* many such items as there are odd-indexed parts.
C1_OneItemPerDiagram ==
    \A r \in Reqs :
        success[r] =>
            /\ Len(renderLog[r]) = Cardinality(OddIdx(parts[r]))
            /\ \A k \in 1..Len(renderLog[r]) :
                  LET e == renderLog[r][k]
                  IN /\ e.idx = 2 * k - 1
                     /\ e.after = e.before + 1
                     /\ IsDiagramItem(doc[r][e.after])
            /\ CountItems(doc[r], IsDiagramItem) = Cardinality(OddIdx(parts[r]))

C1_Witness ==
    \E r \in Reqs :
        /\ success[r]
        /\ Len(renderLog[r]) >= 2
        /\ \E i \in 1..Len(doc[r]) : doc[r][i].kind = "picture"
        /\ \E i \in 1..Len(doc[r]) : doc[r][i] = ImageErrorPlaceholder

\* ------------------------------------------------------------------ C2
CleanName(e) == Replace(e.name, ModelsPrefix, <<>>)
Generates(e) == GENERATE \in e.supportedGenerationMethods

FlashEntries ==
    {i \in 1..Len(catalog) :
        Generates(catalog[i]) /\ Contains(CleanName(catalog[i]), Flash)}
ProEntries ==
    {i \in 1..Len(catalog) :
        Generates(catalog[i]) /\ Contains(CleanName(catalog[i]), Pro)}

PreferredModel ==
    IF fetch # "ok" THEN DefaultModel
    ELSE IF FlashEntries # {} THEN CleanName(catalog[Min(FlashEntries)])
    ELSE IF ProEntries # {} THEN CleanName(catalog[Max(ProEntries)])
    ELSE DefaultModel

\* C2: the identifier the generation call is made with is the first
\* generating flash entry of the catalog, else the last generating pro entry,
\* else (failed catalog call, or nothing matching) the hardcoded default.
C2_PreferenceOrder ==
    \A r \in Reqs : Reached(r) => modelUsed[r] = PreferredModel

C2_Witness ==
    \E r \in Reqs :
        /\ Reached(r)
        /\ fetch = "ok"
        /\ Len(catalog) = 2
        /\ catalog[1] = [name |-> ModelsPrefix \o <<"x", "-">> \o Pro,
                         supportedGenerationMethods |-> {GENERATE}]
        /\ catalog[2] = [name |-> ModelsPrefix \o <<"y", "-">> \o Flash,
                         supportedGenerationMethods |-> {GENERATE}]
        /\ modelUsed[r] = <<"y", "-">> \o Flash

\* ------------------------------------------------------------------ C3
\* C3: executeDiagramCode returns an image path exactly when the script was
\* written, the subprocess exited with status zero and the output file exists
\* afterwards; in every other case it returns None (it always returns).
C3_PathOnlyOnExitZeroAndFile ==
    \A r \in Reqs :
        lastExec[r].called =>
            /\ lastExec[r].result.some <=>
                  /\ lastExec[r].write = "ok"
                  /\ lastExec[r].run = "exit0"
                  /\ lastExec[r].existsAfter
            /\ ~lastExec[r].result.some => lastExec[r].result = NoImage

C3_Witness ==
    \E r \in Reqs :
        /\ lastExec[r].called
        /\ lastExec[r].write = "ok"
        /\ lastExec[r].run = "exit0"
        /\ ~lastExec[r].existsAfter
        /\ lastExec[r].result = NoImage

\* ------------------------------------------------------------------ C4
KeptProse(ps) ==
    {i \in EvenIdx(ps) : HasWord(ps[i + 1])}

\* C4: processImageToDoc fails exactly when the oracle returned no text
\* (None, the empty string, or a value that is not text); when it returned
\* text, every part of the split
\* has been processed whatever the diagrams' outcomes: every diagram was
\* rendered and every non-blank prose span appended.
C4_OnlyOracleFailureIsFatal ==
    \A r \in Reqs :
        pc[r] \in {"processed", "readback", "remove", "send", "handler",
                   "handler_remove"}
          \/ (pc[r] = "done" /\ Reached(r)) =>
            /\ success[r] <=> (oracle[r] = "ok" /\ respText[r] # <<>>)
            /\ success[r] =>
                  /\ idx[r] = Len(parts[r])
                  /\ Len(renderLog[r]) = Cardinality(OddIdx(parts[r]))
                  /\ CountItems(doc[r], IsProse)
                        = Cardinality(KeptProse(parts[r]))

C4_Witness ==
    \E r \in Reqs :
        /\ success[r]
        /\ Len(renderLog[r]) >= 2
        /\ doc[r][renderLog[r][1].after] = FailedPlaceholder
        /\ \E i \in (renderLog[r][1].after + 1)..Len(doc[r]) : IsProse(doc[r][i])

\* ------------------------------------------------------------------ C6
\* A word that is the first of its line.
LineStarts(text) ==
    {i \in 1..Len(text) :
        /\ ~IsSpace(text[i])
        /\ \A j \in 1..(i - 1) :
              ~IsSpace(text[j]) => \E k \in (j + 1)..(i - 1) : text[k] = NEWLINE}

\* A word that is the first of its paragraph: at least one blank line lies
\* between it and the word before it.
ParagraphStarts(text) ==
    {i \in 1..Len(text) :
        /\ ~IsSpace(text[i])
        /\ \A j \in 1..(i - 1) :
              ~IsSpace(text[j]) =>
                  Cardinality({k \in (j + 1)..(i - 1) : text[k] = NEWLINE}) >= 2}

\* C6 as stated: with no marker in the response, the document holds one prose
\* paragraph per non-empty line (or per non-empty paragraph) of the response,
\* no picture and no placeholder.
C6_OneParagraphPerLine ==
    \A r \in Reqs :
        (success[r] /\ NoMarkers(respText[r])) =>
            /\ CountItems(doc[r], IsProse)
                  \in {Cardinality(LineStarts(respText[r])),
                       Cardinality(ParagraphStarts(respText[r]))}
            /\ CountItems(doc[r], IsDiagramItem) = 0

\* C6 amended: with no marker in the response, the document is the title, the
\* source heading, a single paragraph holding the whole trimmed response
\* (however many lines it has; none when the response is whitespace only) and
\* the page break: no picture and no placeholder.
C6_WholeResponseIsOneParagraph ==
    \A r \in Reqs :
        (success[r] /\ NoMarkers(respText[r])) =>
            doc[r] = <<TitleItem, SourceHeading(filename[r])>>
                       \o (IF HasWord(respText[r])
                           THEN <<Item("paragraph",
                                       SubSeq(respText[r],
                                              Min({i \in 1..Len(respText[r]) :
                                                     ~IsSpace(respText[r][i])}),
                                              Max({i \in 1..Len(respText[r]) :
                                                     ~IsSpace(respText[r][i])})))>>
                           ELSE <<>>)
                       \o <<PageBreak>>

C6_Witness ==
    \E r \in Reqs :
        /\ success[r]
        /\ NoMarkers(respText[r])
        /\ Cardinality(ParagraphStarts(respText[r])) >= 2
        /\ CountItems(doc[r], IsProse) = 1

\* ------------------------------------------------------------------ C7
Markers(text) == SelectSeq(text, IsMarker)

\* START and END alternate, beginning with START and ending with END.
WellFormed(text) ==
    LET m == Markers(text)
    IN /\ Len(m) % 2 = 0
       /\ \A i \in 1..Len(m) : m[i] = (IF i % 2 = 1 THEN START ELSE END)

Pairs(text) == Len(Markers(text)) \div 2

\* The parts put back together: a START before and an END after every
\* odd-indexed part.
RECURSIVE Rejoin(_)
Rejoin(ps) ==
    IF Len(ps) <= 1 THEN (IF ps = <<>> THEN <<>> ELSE ps[1])
    ELSE ps[1] \o <<START>> \o ps[2] \o <<END>> \o Rejoin(SubSeq(ps, 3, Len(ps)))

ProseBodies(d) ==
    LET prose == SelectSeq(d, IsProse)
    IN [i \in 1..Len(prose) |-> prose[i].body]

\* The trimmed text of the non-blank prose spans, in order.
RECURSIVE KeptProseBodies(_)
KeptProseBodies(ps) ==
    IF ps = <<>> THEN <<>>
    ELSE (IF HasWord(ps[1]) THEN <<Strip(ps[1])>> ELSE <<>>)
           \o (IF Len(ps) <= 2 THEN <<>>
               ELSE KeptProseBodies(SubSeq(ps, 3, Len(ps))))

\* C7: for a response whose markers form matched pairs, the split has one
\* odd-indexed (diagram) part per pair, no part holds a marker, and the parts
\* put back together with their markers are the response (so the prose before,
\* between and after the pairs keeps its place); in the finished document the
\* prose paragraphs are the non-blank prose spans in order, and every pair,
\* empty or not, has its own diagram item.
C7_SplitMatchesPairs ==
    \A r \in Reqs :
        (parts[r] # <<>> /\ WellFormed(respText[r])) =>
            /\ Cardinality(OddIdx(parts[r])) = Pairs(respText[r])
            /\ Len(parts[r]) = 2 * Pairs(respText[r]) + 1
            /\ \A i \in 1..Len(parts[r]) : NoMarkers(parts[r][i])
            /\ Rejoin(parts[r]) = respText[r]
            /\ success[r] =>
                  /\ ProseBodies(doc[r]) = KeptProseBodies(parts[r])
                  /\ CountItems(doc[r], IsDiagramItem) = Pairs(respText[r])

C7_Witness ==
    \E r \in Reqs :
        /\ success[r]
        /\ WellFormed(respText[r])
        /\ Pairs(respText[r]) = 2
        /\ parts[r][2] = <<>>
        /\ parts[r][3] # <<>> /\ ~HasWord(parts[r][3])
        /\ CountItems(doc[r], IsDiagramItem) = 2
        /\ CountItems(doc[r], IsProse) = 0

\* ------------------------------------------------------------------ C8
Kinds(d) == [i \in 1..Len(d) |-> d[i].kind]

\* The kept segments of ps in order, as Python indices.
RECURSIVE KeptSeq(_, _)
KeptSeq(ps, i) ==
    IF i >= Len(ps) THEN <<>>
    ELSE (IF i % 2 = 1 \/ HasWord(ps[i + 1]) THEN <<i>> ELSE <<>>)
           \o KeptSeq(ps, i + 1)

\* C8: the source heading is the first item appended; every render starts
\* when exactly the kept segments before it have been appended, and renders
\* follow document order with counters 0, 1, 2, ...; the finished document is
\* the title, the source heading, one item per kept segment in order
\* (paragraph for prose, picture or placeholder for a diagram) and a single
\* page break, last.
C8_DocumentOrder ==
    \A r \in Reqs :
        /\ \A k \in 1..Len(renderLog[r]) :
              LET e == renderLog[r][k]
              IN /\ e.idx = 2 * k - 1
                 /\ e.id = Sanitize(filename[r] \o <<"_">> \o Str(k - 1))
                 /\ e.before = 2 + Cardinality(KeptBefore(parts[r], e.idx))
                 /\ SubSeq(doc[r], 1, 2)
                       = <<TitleItem, SourceHeading(filename[r])>>
        /\ success[r] =>
              LET kept == KeptSeq(parts[r], 0)
                  d == doc[r]
              IN /\ Len(d) = Len(kept) + 3
                 /\ d[1] = TitleItem
                 /\ d[2] = SourceHeading(filename[r])
                 /\ d[Len(d)] = PageBreak
                 /\ CountItems(d, LAMBDA it : it = PageBreak) = 1
                 /\ \A k \in 1..Len(kept) :
                       IF kept[k] % 2 = 0
                       THEN d[k + 2] = Item("paragraph", Strip(parts[r][kept[k] + 1]))
                       ELSE IsDiagramItem(d[k + 2])

C8_Witness ==
    \E r \in Reqs :
        /\ success[r]
        /\ respText[r] = <<WORD, START, WORD, END, WORD>>
        /\ Kinds(doc[r]) = <<"heading0", "heading1", "paragraph", "picture",
                             "paragraph", "pagebreak">>

\* ------------------------------------------------------------------ C5
\* The request's own inputs let it succeed.
OwnInputsOk(r) ==
    /\ hasFile[r]
    /\ filename[r] # <<>>
    /\ apiKey # ""
    /\ oracle[r] = "ok"
    /\ respText[r] # <<>>
    /\ ~SaveRaises(OutputPath(filename[r]))

\* C5: a finished request that answered 200 sent the bytes of the document it
\* built itself, and a request whose own inputs are good answers 200 whatever
\* the other request does.
C5_RequestsAreIsolated ==
    \A r \in Reqs :
        pc[r] = "done" =>
            /\ status[r] = 200 => (recv[r].owner = r /\ recv[r].data = doc[r])
            /\ OwnInputsOk(r) => status[r] = 200

\* ------------------------------------------------------------------ C9
\* C9: a finished request that had created a working directory leaves no
\* working directory, no file in it, and no file written by it.
C9_NothingLeftBehind ==
    \A r \in Reqs :
        (pc[r] = "done" /\ wdCreated[r]) =>
            /\ r \notin dirs
            /\ \A f \in files : f.path.dir # r /\ f.owner # r

C9_Witness ==
    \E r \in Reqs :
        /\ pc[r] = "done"
        /\ wdCreated[r]
        /\ success[r]
        /\ status[r] = 500
        /\ subprocRuns[r] > 0
        /\ lastExec[r].existsAfter

\* ------------------------------------------------------------------ C10
\* C10: without an API key no request attempts a network call, creates a
\* working directory or runs a subprocess, and every request ends in an error.
C10_NoKeyFailsFast ==
    apiKey = "" =>
        \A r \in Reqs :
            /\ netCalls[r] = 0
            /\ ~wdCreated[r]
            /\ r \notin dirs
            /\ subprocRuns[r] = 0
            /\ pc[r] \in {"idle", "start", "done"}
            /\ pc[r] = "done" => status[r] \in {400, 500}

C10_Witness ==
    \E r \in Reqs :
        /\ apiKey = ""
        /\ hasFile[r]
        /\ filename[r] # <<>>
        /\ pc[r] = "done"
        /\ status[r] = 500

====
